---- MODULE Spec2Model ----
(***************************************************************************)
(* Model of CVR.py: single-vehicle routing with one pickup.               *)
(*                                                                         *)
(* Stops are records (class Event); the field name stands for the object  *)
(* identity of the Python instance (Event defines no __eq__).  Python     *)
(* lists are sequences; Python index p is position p + 1 here, and every  *)
(* loop variable below keeps its Python (0-based) value.                  *)
(*                                                                         *)
(* Coordinates are drawn from Sites, a point set whose pairwise Euclidean *)
(* distances are all integers, so math.sqrt and the float sums of the     *)
(* source are exact and integer arithmetic computes the same values.      *)
(***************************************************************************)
EXTENDS Integers, Sequences, FiniteSets, TLC

VARIABLES deliveries, pickups, vehicle_capacity, pc, k, selected_deliveries,
          route, best_solution, best_score, opt, verdict

vars == <<deliveries, pickups, vehicle_capacity, pc, k, selected_deliveries,
          route, best_solution, best_score, opt, verdict>>

(***************************************************************************)
(* Bounds of the checked instances.                                       *)
(***************************************************************************)
\* solve: list lengths and stop capacities (vehicle capacity: -1..MaxCapacity+1)
MaxDeliveries == 2
MaxPickups == 2
MaxCapacity == 1
\* select_deliveries alone: list length and stop capacities
MaxSelectInput == 3
MaxSelectCapacity == 2
\* build_route alone: number of selected deliveries
MaxSelection == 4
\* two_opt alone: number of stops between the two depots
MaxStops == 5
\* is_capacity_feasible alone: route length and stop capacities
MaxRouteStops == 4
MaxLoadCapacity == 2

\* float("inf"): larger than every distance sum the bounds can produce
Inf == 1000000

\* best_position = None
None_position == -1

\* origin and the vertices of a 6 x 8 rhombus: distances 0, 3, 4, 5, 6, 8
Sites == {<<0, 0>>, <<3, 0>>, <<-3, 0>>, <<0, 4>>, <<0, -4>>}

(***************************************************************************)
(* Data structures                                                        *)
(***************************************************************************)
Event(x, y, capacity, event_type, name) ==
    [x |-> x, y |-> y, capacity |-> capacity, type |-> event_type, name |-> name]

DEPOT == Event(0, 0, 0, "depot", <<"Depot", 0>>)

\* best_solution = None
None == [none |-> TRUE]

(***************************************************************************)
(* Distance utilities                                                     *)
(***************************************************************************)
\* math.sqrt on a perfect square (no rounding: undefined on anything else)
sqrt(n) == CHOOSE r \in 0..n : r * r = n

distance(a, b) == sqrt((a.x - b.x) * (a.x - b.x) + (a.y - b.y) * (a.y - b.y))

RECURSIVE route_length(_)
route_length(r) ==
    IF Len(r) < 2 THEN 0
    ELSE distance(r[1], r[2]) + route_length(Tail(r))

(***************************************************************************)
(* Delivery selection (knapsack-style greedy)                             *)
(***************************************************************************)
\* key=lambda d: (d.capacity, distance(DEPOT, d)), compared as tuples
KeyLE(a, b) ==
    \/ a.capacity < b.capacity
    \/ /\ a.capacity = b.capacity
       /\ distance(DEPOT, a) <= distance(DEPOT, b)

\* one insertion of the stable sort: d goes after every element whose key is <= its own
SortedInsert(s, d) ==
    LET n == Cardinality({q \in 1..Len(s) : KeyLE(s[q], d)})
    IN  SubSeq(s, 1, n) \o <<d>> \o SubSeq(s, n + 1, Len(s))

\* mutant: the list is scanned in input order
sorted_unsorted(ds) == ds

RECURSIVE sorted(_)
sorted(ds) ==
    IF ds = <<>> THEN <<>>
    ELSE SortedInsert(sorted(SubSeq(ds, 1, Len(ds) - 1)), ds[Len(ds)])

\* mutant: the running sum is never increased
RECURSIVE SelectLoop_no_sum(_, _, _, _)
SelectLoop_no_sum(ds, selected, total_capacity, capacity_limit) ==
    IF ds = <<>> THEN selected
    ELSE LET d == Head(ds)
         IN  IF total_capacity + d.capacity <= capacity_limit
             THEN SelectLoop_no_sum(Tail(ds), Append(selected, d),
                                    total_capacity, capacity_limit)
             ELSE SelectLoop_no_sum(Tail(ds), selected, total_capacity, capacity_limit)

RECURSIVE SelectLoop(_, _, _, _)
SelectLoop(ds, selected, total_capacity, capacity_limit) ==
    IF ds = <<>> THEN selected
    ELSE LET d == Head(ds)
         IN  IF total_capacity + d.capacity <= capacity_limit
             THEN SelectLoop(Tail(ds), Append(selected, d),
                             total_capacity + d.capacity, capacity_limit)
             ELSE SelectLoop(Tail(ds), selected, total_capacity, capacity_limit)

select_deliveries(ds, capacity_limit) ==
    SelectLoop(sorted(ds), <<>>, 0, capacity_limit)

(***************************************************************************)
(* Route construction                                                     *)
(***************************************************************************)
\* min(unvisited, key=...): position of the first element at minimal distance
FirstNearest(current, unvisited) ==
    CHOOSE p \in 1..Len(unvisited) :
        /\ \A q \in 1..Len(unvisited) :
               distance(current, unvisited[p]) <= distance(current, unvisited[q])
        /\ \A q \in 1..(p - 1) :
               distance(current, unvisited[p]) < distance(current, unvisited[q])

\* unvisited.remove(next_event), next_event being the element at position p
RemoveAt(s, p) == SubSeq(s, 1, p - 1) \o SubSeq(s, p + 1, Len(s))

RECURSIVE NearestLoop(_, _, _)
NearestLoop(r, current, unvisited) ==
    IF unvisited = <<>> THEN r
    ELSE LET p == FirstNearest(current, unvisited)
             next_event == unvisited[p]
         IN  NearestLoop(Append(r, next_event), next_event, RemoveAt(unvisited, p))

nearest_neighbor_route(ds) == NearestLoop(<<DEPOT>>, DEPOT, ds)

\* increase of inserting pickup between Python indices i - 1 and i
increase(r, pickup, i) ==
    distance(r[i], pickup) + distance(pickup, r[i + 1]) - distance(r[i], r[i + 1])

\* for i in range(1, len(route)): returns best_position
RECURSIVE InsertLoop(_, _, _, _, _)
InsertLoop(r, pickup, i, best_position, best_increase) ==
    IF i >= Len(r) THEN best_position
    ELSE IF increase(r, pickup, i) < best_increase
         THEN InsertLoop(r, pickup, i + 1, i, increase(r, pickup, i))
         ELSE InsertLoop(r, pickup, i + 1, best_position, best_increase)

\* mutant: route[best_position] = pickup instead of route.insert
insert_pickup_overwrite(r, pickup) ==
    LET best_position == InsertLoop(r, pickup, 1, None_position, Inf)
    IN  IF best_position = None_position
        THEN [raised |-> TRUE, route |-> r]
        ELSE [raised |-> FALSE, route |-> [r EXCEPT ![best_position + 1] = pickup]]

\* mutant: the slot after the last stop (back to the depot) competes too
insert_pickup_or_append(r, pickup) ==
    LET best_position == InsertLoop(r, pickup, 1, None_position, Inf)
        best_increase == IF best_position = None_position THEN Inf
                         ELSE increase(r, pickup, best_position)
        last_increase == distance(r[Len(r)], pickup) + distance(pickup, DEPOT)
                         - distance(r[Len(r)], DEPOT)
    IN  IF last_increase < best_increase
        THEN [raised |-> FALSE, route |-> Append(r, pickup)]
        ELSE [raised |-> FALSE,
              route |-> SubSeq(r, 1, best_position) \o <<pickup>>
                        \o SubSeq(r, best_position + 1, Len(r))]

\* route.insert(best_position, pickup); insert(None, ...) raises TypeError
insert_pickup_best_position(r, pickup) ==
    LET best_position == InsertLoop(r, pickup, 1, None_position, Inf)
    IN  IF best_position = None_position
        THEN [raised |-> TRUE, route |-> r]
        ELSE [raised |-> FALSE,
              route |-> SubSeq(r, 1, best_position) \o <<pickup>>
                        \o SubSeq(r, best_position + 1, Len(r))]

(***************************************************************************)
(* two_opt as a step machine: s.pc is the position in the function,       *)
(* s.i and s.j are the Python loop indices of the pair examined next.     *)
(***************************************************************************)
\* new_route = best_route[:]; new_route[i:j] = reversed(best_route[i:j])
RECURSIVE reversed(_)
reversed(r) ==
    IF r = <<>> THEN <<>> ELSE Append(reversed(Tail(r)), Head(r))

Reversed(r, i, j) ==
    SubSeq(r, 1, i) \o reversed(SubSeq(r, i + 1, j)) \o SubSeq(r, j + 1, Len(r))

\* lines 114-116
two_opt_enter(r) ==
    [pc |-> "while", best_route |-> r, best_length |-> route_length(r),
     improved |-> TRUE, i |-> 0, j |-> 0]

\* line 118-120: the while test, improved = False, and the entry of both for loops
two_opt_while(s) ==
    IF ~s.improved THEN [s EXCEPT !.pc = "return"]
    ELSE IF 1 < Len(s.best_route) - 2
         THEN [s EXCEPT !.pc = "scan", !.improved = FALSE, !.i = 1, !.j = 2]
         ELSE [s EXCEPT !.improved = FALSE]

\* the loop headers after one inner iteration: next j, else next i, else pass over
two_opt_advance(s) ==
    IF s.j + 1 < Len(s.best_route) - 1 THEN [s EXCEPT !.j = s.j + 1]
    ELSE IF s.i + 1 < Len(s.best_route) - 2
         THEN [s EXCEPT !.i = s.i + 1, !.j = s.i + 2]
         ELSE [s EXCEPT !.pc = "while", !.i = 0, !.j = 0]

\* mutant: an improving reversal is kept but improved is not set
two_opt_scan_no_flag(s) ==
    IF s.j - s.i = 1 THEN two_opt_advance(s)
    ELSE LET new_route == Reversed(s.best_route, s.i, s.j)
             new_length == route_length(new_route)
         IN  IF new_length < s.best_length
             THEN two_opt_advance([s EXCEPT !.best_route = new_route,
                                            !.best_length = new_length])
             ELSE two_opt_advance(s)

\* mutant: an improving reversal breaks out of both loops (restart from the top)
two_opt_scan_restart(s) ==
    IF s.j - s.i = 1 THEN two_opt_advance(s)
    ELSE LET new_route == Reversed(s.best_route, s.i, s.j)
             new_length == route_length(new_route)
         IN  IF new_length < s.best_length
             THEN [s EXCEPT !.best_route = new_route, !.best_length = new_length,
                            !.improved = TRUE, !.pc = "while", !.i = 0, !.j = 0]
             ELSE two_opt_advance(s)

\* lines 122-132: one iteration of the inner loop body, then the loop headers
two_opt_scan(s) ==
    IF s.j - s.i = 1 THEN two_opt_advance(s)
    ELSE LET new_route == Reversed(s.best_route, s.i, s.j)
             new_length == route_length(new_route)
         IN  IF new_length < s.best_length
             THEN two_opt_advance([s EXCEPT !.best_route = new_route,
                                            !.best_length = new_length,
                                            !.improved = TRUE])
             ELSE two_opt_advance(s)

RECURSIVE two_opt_run(_)
two_opt_run(s) ==
    IF s.pc = "return" THEN s.best_route
    ELSE IF s.pc = "while" THEN two_opt_run(two_opt_while(s))
    ELSE two_opt_run(two_opt_scan(s))

two_opt(r) == two_opt_run(two_opt_enter(r))

build_route(ds, pickup) ==
    LET ins == insert_pickup_best_position(nearest_neighbor_route(ds), pickup)
    IN  IF ins.raised THEN [raised |-> TRUE, route |-> ins.route]
        ELSE [raised |-> FALSE, route |-> two_opt(Append(ins.route, DEPOT))]

(***************************************************************************)
(* Capacity feasibility check                                             *)
(***************************************************************************)
RECURSIVE total_delivery_load(_)
total_delivery_load(r) ==
    IF r = <<>> THEN 0
    ELSE (IF Head(r).type = "delivery" THEN Head(r).capacity ELSE 0)
         + total_delivery_load(Tail(r))

\* mutant: a pickup leaves the load unchanged
RECURSIVE LoadWalk_no_pickup(_, _, _)
LoadWalk_no_pickup(r, current_load, capacity) ==
    IF r = <<>> THEN TRUE
    ELSE LET e == Head(r)
             load == IF e.type = "delivery" THEN current_load - e.capacity
                     ELSE current_load
         IN  IF load > capacity THEN FALSE
             ELSE LoadWalk_no_pickup(Tail(r), load, capacity)

\* for e in route: update current_load, return False as soon as it exceeds
RECURSIVE LoadWalk(_, _, _)
LoadWalk(r, current_load, capacity) ==
    IF r = <<>> THEN TRUE
    ELSE LET e == Head(r)
             load == IF e.type = "delivery" THEN current_load - e.capacity
                     ELSE IF e.type = "pickup" THEN current_load + e.capacity
                     ELSE current_load
         IN  IF load > capacity THEN FALSE ELSE LoadWalk(Tail(r), load, capacity)

\* mutant: the starting load is not compared with the capacity
is_capacity_feasible_no_start(r, capacity) ==
    LoadWalk(r, total_delivery_load(r), capacity)

is_capacity_feasible(r, capacity) ==
    IF total_delivery_load(r) > capacity THEN FALSE
    ELSE LoadWalk(r, total_delivery_load(r), capacity)

(***************************************************************************)
(* Main solver: one action per statement group of solve's loop.           *)
(* k is the position in pickups of the candidate of the current iteration.*)
(***************************************************************************)
\* tuple comparison score > best_score
ScoreGreater(a, b) ==
    \/ a[1] > b[1]
    \/ a[1] = b[1] /\ a[2] > b[2]

\* lines 193-195: negative budget, continue
SolveSkip ==
    /\ pc = "loop"
    /\ k <= Len(pickups)
    /\ vehicle_capacity < 0
    /\ k' = k + 1
    /\ UNCHANGED <<verdict, deliveries, pickups, vehicle_capacity, pc, selected_deliveries,
                   route, best_solution, best_score, opt>>

\* lines 193-197
SolveSelect ==
    /\ pc = "loop"
    /\ k <= Len(pickups)
    /\ vehicle_capacity >= 0
    /\ selected_deliveries' = select_deliveries(deliveries, vehicle_capacity)
    /\ pc' = "build"
    /\ UNCHANGED <<verdict, deliveries, pickups, vehicle_capacity, k, route, best_solution,
                   best_score, opt>>

\* line 198; the TypeError of insert_pickup_best_position propagates out of solve
SolveBuild ==
    /\ pc = "build"
    /\ LET built == build_route(selected_deliveries, pickups[k])
       IN  IF built.raised
           THEN pc' = "raised" /\ route' = route
           ELSE pc' = "check" /\ route' = built.route
    /\ UNCHANGED <<verdict, deliveries, pickups, vehicle_capacity, k, selected_deliveries,
                   best_solution, best_score, opt>>

\* lines 200-201
SolveReject ==
    /\ pc = "check"
    /\ ~is_capacity_feasible(route, vehicle_capacity)
    /\ k' = k + 1
    /\ pc' = "loop"
    /\ UNCHANGED <<verdict, deliveries, pickups, vehicle_capacity, selected_deliveries, route,
                   best_solution, best_score, opt>>

\* lines 200, 203-215
SolveScore ==
    /\ pc = "check"
    /\ is_capacity_feasible(route, vehicle_capacity)
    /\ LET num_deliveries == Len(selected_deliveries)
           length == route_length(route)
           score == <<num_deliveries, -length>>
       IN  IF ScoreGreater(score, best_score)
           THEN /\ best_score' = score
                /\ best_solution' = [route |-> route,
                                     num_deliveries |-> num_deliveries,
                                     route_length |-> length,
                                     pickup_used |-> pickups[k]]
           ELSE UNCHANGED <<best_score, best_solution>>
    /\ k' = k + 1
    /\ pc' = "loop"
    /\ UNCHANGED <<verdict, deliveries, pickups, vehicle_capacity, selected_deliveries, route,
                   opt>>

\* line 217
SolveReturn ==
    /\ pc = "loop"
    /\ k > Len(pickups)
    /\ pc' = "done"
    /\ UNCHANGED <<verdict, deliveries, pickups, vehicle_capacity, k, selected_deliveries,
                   route, best_solution, best_score, opt>>

(***************************************************************************)
(* build_route and two_opt statement by statement.                        *)
(***************************************************************************)
\* lines 145-147
BuildConstruct ==
    /\ pc = "construct"
    /\ LET ins == insert_pickup_best_position(
                      nearest_neighbor_route(selected_deliveries), pickups[k])
       IN  IF ins.raised
           THEN pc' = "raised" /\ route' = route
           ELSE pc' = "two_opt_call" /\ route' = Append(ins.route, DEPOT)
    /\ UNCHANGED <<verdict, deliveries, pickups, vehicle_capacity, k, selected_deliveries,
                   best_solution, best_score, opt>>

\* lines 114-116
TwoOptEnter ==
    /\ pc = "two_opt_call"
    /\ opt' = two_opt_enter(route)
    /\ pc' = "two_opt"
    /\ UNCHANGED <<verdict, deliveries, pickups, vehicle_capacity, k, selected_deliveries,
                   route, best_solution, best_score>>

\* lines 118-120
TwoOptWhile ==
    /\ pc = "two_opt"
    /\ opt.pc = "while"
    /\ opt' = two_opt_while(opt)
    /\ UNCHANGED <<verdict, deliveries, pickups, vehicle_capacity, pc, k, selected_deliveries,
                   route, best_solution, best_score>>

\* lines 121-132
TwoOptScan ==
    /\ pc = "two_opt"
    /\ opt.pc = "scan"
    /\ opt' = two_opt_scan(opt)
    /\ UNCHANGED <<verdict, deliveries, pickups, vehicle_capacity, pc, k, selected_deliveries,
                   route, best_solution, best_score>>

\* line 136 and the assignment of line 148
TwoOptReturn ==
    /\ pc = "two_opt"
    /\ opt.pc = "return"
    /\ route' = opt.best_route
    /\ pc' = "returned"
    /\ UNCHANGED <<verdict, deliveries, pickups, vehicle_capacity, k, selected_deliveries,
                   best_solution, best_score, opt>>

(***************************************************************************)
(* Inputs                                                                 *)
(***************************************************************************)
SeqsUpTo(S, n) == UNION {[1..m -> S] : m \in 0..n}

\* a list of Event objects from <<x, y, capacity>> triples; the position is the identity
Stops(cs, event_type, tag) ==
    [p \in 1..Len(cs) |-> Event(cs[p][1], cs[p][2], cs[p][3], event_type, <<tag, p>>)]

DeliveryChoices == {<<3, 0, c>> : c \in 0..MaxCapacity} \cup {<<0, 4, 1>>}

PickupChoices == {<<0, 4, c>> : c \in 0..MaxCapacity} \cup {<<-3, 0, 1>>}

SelectChoices == {<<3, 0, c>> : c \in 0..MaxSelectCapacity}
                 \cup {<<0, 4, c>> : c \in 0..MaxSelectCapacity}

SiteChoices == {<<site[1], site[2], 1>> : site \in Sites}

two_opt_idle ==
    [pc |-> "idle", best_route |-> <<>>, best_length |-> 0, improved |-> FALSE,
     i |-> 0, j |-> 0]

\* solve(deliveries, pickups, vehicle_capacity) is called: lines 188-189
Init ==
    /\ deliveries \in {Stops(cs, "delivery", "D") :
                          cs \in SeqsUpTo(DeliveryChoices, MaxDeliveries)}
    /\ pickups \in {Stops(cs, "pickup", "P") : cs \in SeqsUpTo(PickupChoices, MaxPickups)}
    /\ vehicle_capacity \in -1..(MaxCapacity + 1)
    /\ pc = "loop"
    /\ k = 1
    /\ selected_deliveries = <<>>
    /\ route = <<>>
    /\ best_solution = None
    /\ best_score = <<-1, Inf>>
    /\ opt = two_opt_idle
    /\ verdict = FALSE

Next ==
    \/ SolveSkip
    \/ SolveSelect
    \/ SolveBuild
    \/ SolveReject
    \/ SolveScore
    \/ SolveReturn

Spec == Init /\ [][Next]_vars

\* select_deliveries(deliveries, capacity_limit) is called with any list and limit >= 0
InitSelect ==
    /\ deliveries \in {Stops(cs, "delivery", "D") :
                          cs \in SeqsUpTo(SelectChoices, MaxSelectInput)}
    /\ pickups = Stops(<<<<0, 4, 1>>>>, "pickup", "P")
    /\ vehicle_capacity \in 0..(MaxSelectCapacity + 1)
    /\ pc = "loop"
    /\ k = 1
    /\ selected_deliveries = <<>>
    /\ route = <<>>
    /\ best_solution = None
    /\ best_score = <<-1, Inf>>
    /\ opt = two_opt_idle
    /\ verdict = FALSE

NextSelect == SolveSelect

SpecSelect == InitSelect /\ [][NextSelect]_vars

\* build_route(selected_deliveries, pickup) is called with any selection and pickup
InitBuild ==
    /\ selected_deliveries \in {Stops(cs, "delivery", "D") :
                                   cs \in SeqsUpTo(SiteChoices, MaxSelection)}
    /\ pickups \in {Stops(<<c>>, "pickup", "P") : c \in SiteChoices}
    /\ deliveries = selected_deliveries
    /\ vehicle_capacity = 0
    /\ pc = "construct"
    /\ k = 1
    /\ route = <<>>
    /\ best_solution = None
    /\ best_score = <<-1, Inf>>
    /\ opt = two_opt_idle
    /\ verdict = FALSE

NextBuild ==
    \/ BuildConstruct
    \/ TwoOptEnter
    \/ TwoOptWhile
    \/ TwoOptScan
    \/ TwoOptReturn

SpecBuild == InitBuild /\ [][NextBuild]_vars

\* two_opt(route) is called with any closed route
InitTwoOpt ==
    /\ route \in {<<DEPOT>> \o Stops(cs, "delivery", "D") \o <<DEPOT>> :
                     cs \in SeqsUpTo(SiteChoices, MaxStops)}
    /\ deliveries = <<>>
    /\ pickups = <<>>
    /\ selected_deliveries = <<>>
    /\ vehicle_capacity = 0
    /\ pc = "two_opt_call"
    /\ k = 1
    /\ best_solution = None
    /\ best_score = <<-1, Inf>>
    /\ opt = two_opt_idle
    /\ verdict = FALSE

NextTwoOpt ==
    \/ TwoOptEnter
    \/ TwoOptWhile
    \/ TwoOptScan
    \/ TwoOptReturn

SpecTwoOpt == InitTwoOpt /\ [][NextTwoOpt]_vars

\* is_capacity_feasible(route, vehicle_capacity) is called: lines 156-177
FeasibleCall ==
    /\ pc = "feasible_call"
    /\ verdict' = is_capacity_feasible(route, vehicle_capacity)
    /\ pc' = "feasible_returned"
    /\ UNCHANGED <<deliveries, pickups, vehicle_capacity, k, selected_deliveries,
                   route, best_solution, best_score, opt>>

RouteChoices ==
    {DEPOT} \cup {Event(3, 0, c, t, <<t, 0>>) :
                     c \in 0..MaxLoadCapacity, t \in {"delivery", "pickup"}}

\* the stops of a route are distinct objects: the position is the identity
RouteStops(es) ==
    [p \in 1..Len(es) |-> IF es[p].type = "depot" THEN DEPOT
                           ELSE [es[p] EXCEPT !.name = <<es[p].type, p>>]]

\* is_capacity_feasible is called with any route and any capacity >= 0
InitFeasible ==
    /\ route \in {RouteStops(es) : es \in SeqsUpTo(RouteChoices, MaxRouteStops)}
    /\ vehicle_capacity \in 0..(MaxLoadCapacity + 1)
    /\ deliveries = <<>>
    /\ pickups = <<>>
    /\ selected_deliveries = <<>>
    /\ pc = "feasible_call"
    /\ k = 1
    /\ best_solution = None
    /\ best_score = <<-1, Inf>>
    /\ opt = two_opt_idle
    /\ verdict = FALSE

NextFeasible == FeasibleCall

SpecFeasible == InitFeasible /\ [][NextFeasible]_vars

(***************************************************************************)
(* Properties                                                             *)
(***************************************************************************)
Range(s) == {s[p] : p \in 1..Len(s)}

Count(s, e) == Cardinality({p \in 1..Len(s) : s[p] = e})

RECURSIVE SumCapacity(_)
SumCapacity(s) == IF s = <<>> THEN 0 ELSE Head(s).capacity + SumCapacity(Tail(s))

\* sum of the capacities of the stops of type t among the first n stops of r
RECURSIVE TypeLoad(_, _, _)
TypeLoad(r, n, t) ==
    IF n = 0 THEN 0
    ELSE (IF r[n].type = t THEN r[n].capacity ELSE 0) + TypeLoad(r, n - 1, t)

\* load on board after the first n stops of r
LoadAfter(r, n) ==
    TypeLoad(r, Len(r), "delivery") - TypeLoad(r, n, "delivery") + TypeLoad(r, n, "pickup")

LoadsWithin(r, capacity) == \A n \in 0..Len(r) : LoadAfter(r, n) <= capacity

Swap(r, p, q) == [r EXCEPT ![p] = r[q], ![q] = r[p]]

\* the candidates of solve, computed from the inputs
Selection == select_deliveries(deliveries, vehicle_capacity)

Candidate(n) == build_route(Selection, pickups[n])

FeasibleCandidates ==
    {n \in 1..Len(pickups) :
        /\ vehicle_capacity >= 0
        /\ ~Candidate(n).raised
        /\ is_capacity_feasible(Candidate(n).route, vehicle_capacity)}

CandidateScore(n) == <<Len(Selection), -route_length(Candidate(n).route)>>

ExpectedSolution ==
    IF FeasibleCandidates = {} THEN None
    ELSE LET n == CHOOSE c \in FeasibleCandidates :
                      \A m \in FeasibleCandidates :
                          /\ ~ScoreGreater(CandidateScore(m), CandidateScore(c))
                          /\ m < c => ScoreGreater(CandidateScore(c), CandidateScore(m))
         IN  [route |-> Candidate(n).route,
              num_deliveries |-> Len(Selection),
              route_length |-> route_length(Candidate(n).route),
              pickup_used |-> pickups[n]]

\* C1: one delivery and one pickup, both of capacity equal to the vehicle capacity:
\* solve returns a Solution serving the delivery, not the empty result.
C1_EqualCapacityAccepted ==
    (/\ pc = "done"
     /\ Len(deliveries) = 1
     /\ Len(pickups) = 1
     /\ deliveries[1].capacity = vehicle_capacity
     /\ pickups[1].capacity = vehicle_capacity)
    => (best_solution # None /\ best_solution.num_deliveries = 1)

\* C2: solve never ends in a fault, also when the selection is empty; every route it
\* constructs has at least the two depots around the pickup.
C2_SolveNeverFaults ==
    /\ pc # "raised"
    /\ pc = "check" => Len(route) >= 3

\* C4: solve ends by returning, and what it returns is the empty result when no
\* candidate is feasible and otherwise the feasible candidate of greatest score,
\* the first such in pickups order.
C4_ReturnsBestCandidate ==
    pc \in {"done", "raised"} => (pc = "done" /\ best_solution = ExpectedSolution)

\* Whenever solve does return, it returns what C4 states (the fault of
\* insert_pickup_best_position is the only way C4 fails).
SolveReturnsBestCandidate ==
    pc = "done" => best_solution = ExpectedSolution

\* C5: the list select_deliveries returns holds input deliveries only, each at most
\* once, and their capacities sum to at most the limit.
C5_SelectionWithinLimit ==
    pc = "build" =>
        /\ \A e \in Range(selected_deliveries) :
               Count(selected_deliveries, e) = 1 /\ Count(deliveries, e) = 1
        /\ SumCapacity(selected_deliveries) <= vehicle_capacity

\* C5 witness: a selection that fills the limit exactly and leaves a delivery out.
C5_Witness ==
    /\ pc = "build"
    /\ selected_deliveries # <<>>
    /\ Len(selected_deliveries) < Len(deliveries)
    /\ SumCapacity(selected_deliveries) = vehicle_capacity

RECURSIVE IndexSum(_, _)
IndexSum(ds, S) ==
    IF S = {} THEN 0
    ELSE LET p == CHOOSE q \in S : TRUE
         IN  ds[p].capacity + IndexSum(ds, S \ {p})

\* the greatest number of deliveries of ds whose capacities sum to at most limit
MaxFeasibleCount(ds, limit) ==
    LET sizes == {Cardinality(S) : S \in {T \in SUBSET (1..Len(ds)) : IndexSum(ds, T) <= limit}}
    IN  CHOOSE n \in sizes : \A m \in sizes : m <= n

\* C10: select_deliveries returns as many deliveries as any subset within the limit
\* has, and its selection is a prefix of the ascending (capacity, depot distance)
\* order: ascending itself, and no delivery left out sorts before a selected one.
C10_SelectionCountMaximal ==
    pc = "build" =>
        /\ Len(selected_deliveries) = MaxFeasibleCount(deliveries, vehicle_capacity)
        /\ \A p \in 1..Len(selected_deliveries), q \in 1..Len(selected_deliveries) :
               p <= q => KeyLE(selected_deliveries[p], selected_deliveries[q])
        /\ \A e \in Range(selected_deliveries), d \in Range(deliveries) :
               d \notin Range(selected_deliveries) => KeyLE(e, d)

\* C10 witness: the first input delivery is left out and two later ones are selected.
C10_Witness ==
    /\ pc = "build"
    /\ Len(selected_deliveries) >= 2
    /\ Len(selected_deliveries) < Len(deliveries)
    /\ deliveries[1] \notin Range(selected_deliveries)

\* C7: for any route and capacity, is_capacity_feasible returns true exactly when
\* the starting load (all delivery capacities of the route) and the load after every
\* stop, in route order, are at most the capacity.
C7_FeasibleIffLoadsWithin ==
    pc = "feasible_returned" => (verdict <=> LoadsWithin(route, vehicle_capacity))

\* C7 witness: a route judged feasible that exchanging two of its stops makes
\* infeasible, the starting load being the same in both orders.
C7_Witness ==
    /\ pc = "feasible_returned"
    /\ verdict
    /\ \E p \in 1..Len(route), q \in 1..Len(route) :
           /\ ~is_capacity_feasible(Swap(route, p, q), vehicle_capacity)
           /\ ~LoadsWithin(Swap(route, p, q), vehicle_capacity)

\* the starting-load exit decides alone: the load after every stop is within the
\* capacity and the route is still judged infeasible
StartLoadExit ==
    /\ pc = "feasible_returned"
    /\ ~verdict
    /\ \A n \in 1..Len(route) : LoadAfter(route, n) <= vehicle_capacity

\* C3: the route build_route returns starts and ends with the depot, has no depot in
\* between, and holds each selected delivery and the pickup exactly once, nothing else.
C3_RouteShape ==
    pc = "returned" =>
        /\ route[1] = DEPOT
        /\ route[Len(route)] = DEPOT
        /\ \A p \in 2..(Len(route) - 1) : route[p].type # "depot"
        /\ \A d \in Range(selected_deliveries) : Count(route, d) = 1
        /\ Count(route, pickups[1]) = 1
        /\ Len(route) = Len(selected_deliveries) + 3

\* the route build_route hands to two_opt
Constructed ==
    Append(insert_pickup_best_position(
               nearest_neighbor_route(selected_deliveries), pickups[1]).route, DEPOT)

\* C3 witness: a returned route of two or more deliveries that two_opt reordered.
C3_Witness ==
    /\ pc = "returned"
    /\ Len(selected_deliveries) >= 2
    /\ route # Constructed

\* the route being built or optimised
CurrentRoute == IF pc = "two_opt" THEN opt.best_route ELSE route

\* C9: from construction to return, the stop before the closing depot is the last
\* delivery of the nearest-neighbor tour, so the pickup is never the last stop.
C9_LastStopIsLastDelivery ==
    pc \in {"two_opt_call", "two_opt", "returned"} =>
        LET tour == nearest_neighbor_route(selected_deliveries)
        IN  /\ CurrentRoute[Len(CurrentRoute) - 1] = tour[Len(tour)]
            /\ CurrentRoute[Len(CurrentRoute) - 1].type = "delivery"

\* r with stop number p moved to just before the closing depot
MovedLast(r, p) ==
    SubSeq(r, 1, p - 1) \o SubSeq(r, p + 1, Len(r) - 1) \o <<r[p], r[Len(r)]>>

\* C9 witness: a returned route that would be strictly shorter with the pickup as
\* its last stop.
C9_Witness ==
    /\ pc = "returned"
    /\ \E p \in 2..(Len(route) - 1) :
           /\ route[p].type = "pickup"
           /\ route_length(MovedLast(route, p)) < route_length(route)

\* the index pairs one pass of two_opt examines on a route of n stops
ScanPairs(n) == {ij \in (1..(n - 3)) \X (2..(n - 2)) : ij[2] > ij[1] + 1}

\* the pairs the current pass has still to examine, the current one included
Remaining(s) ==
    IF s.pc = "scan"
    THEN {ij \in ScanPairs(Len(s.best_route)) :
             ij[1] > s.i \/ (ij[1] = s.i /\ ij[2] >= s.j)}
    ELSE {}

\* C6: the route two_opt returns is a fixpoint of two_opt, and no scanned reversal
\* strictly shortens it.
C6_TwoOptIdempotent ==
    pc = "returned" =>
        /\ two_opt(route) = route
        /\ \A ij \in ScanPairs(Len(route)) :
               route_length(Reversed(route, ij[1], ij[2])) >= route_length(route)

\* C6 witness: a returned route whose stops are not in their input order.
C6_Witness ==
    /\ pc = "returned"
    /\ \E p \in 2..(Len(route) - 1) : route[p].name # <<"D", p - 1>>

\* the step about to be taken examines a reversal that strictly shortens best_route
Improving ==
    /\ pc = "two_opt"
    /\ opt.pc = "scan"
    /\ opt.j - opt.i # 1
    /\ route_length(Reversed(opt.best_route, opt.i, opt.j)) < opt.best_length

\* C8 as claimed: after an improving reversal the scan restarts from the top, no
\* remaining pair of the interrupted pass is examined.
C8_RestartFromTop ==
    [][Improving =>
          /\ opt'.best_route = Reversed(opt.best_route, opt.i, opt.j)
          /\ Remaining(opt') = {}]_vars

\* C8 amended: after an improving reversal the reversed route is the current best,
\* improved is set, and the scan goes on with the remaining pairs of the same pass;
\* within a pass the pair examined only moves forward.
C8_ContinuesPass ==
    [][/\ Improving =>
              /\ opt'.best_route = Reversed(opt.best_route, opt.i, opt.j)
              /\ opt'.best_length = route_length(opt'.best_route)
              /\ opt'.improved
              /\ Remaining(opt') = Remaining(opt) \ {<<opt.i, opt.j>>}
       /\ (opt.pc = "scan" /\ opt'.pc = "scan") =>
              \/ opt'.i > opt.i
              \/ opt'.i = opt.i /\ opt'.j > opt.j]_vars

\* C8 witness: in the middle of a pass, after an improvement, with pairs left.
C8_Witness ==
    /\ pc = "two_opt"
    /\ opt.pc = "scan"
    /\ opt.improved
    /\ Remaining(opt) # {}

====
